---- MODULE Spec2Model ----
(***************************************************************************)
(* Trace-context propagation of the lambda observability library           *)
(* (src/index.js) and of the publisher Lambda (src/src/publisher/index.mjs)*)
(*                                                                         *)
(* Text is modelled as a tuple of one-character strings, so that           *)
(* String.prototype.split and the template literals of the code are        *)
(* computed, character by character, as the code computes them.            *)
(***************************************************************************)
EXTENDS Integers, Sequences, FiniteSets, TLC

VARIABLES
    xrec,       \* the record handed to extractIncomingTraceContext
    xres,       \* what extractIncomingTraceContext gave for xrec ("none" before the call)
    xres2,      \* what it gave for a new record carrying the traceparent of xres
    idres,      \* the identifiers obtained from the serializers and the generators
    prec,       \* the record handed to parseMessage
    pres,       \* what parseMessage gave for prec
    ambient,    \* the publisher's host runtime: active span and X-Ray variable
    hEvent,     \* the event of the publisher Lambda invocation
    hpc,        \* position of the publisher handler
    hLoc,       \* locals of the publisher handler: traceparent and its source
    hRet,       \* return value of the publisher handler
    pubIn,      \* arguments of SNSPublisher.publish: message and options
    pubpc,      \* position of SNSPublisher.publish
    snsSent,    \* the PublishCommand inputs handed to the SNS client, in order
    evt,        \* processBatch: the event argument of each invocation
    lctx,       \* processBatch: the Lambda context argument of each invocation
    pb,         \* processBatch: the local state of each invocation
    calls,      \* every invocation of the business callback, in order
    spanStatus, \* status of the ambient span the consumer runs in
    api,        \* one invocation of APIHandler.handle
    wo,         \* one invocation of a withObservability wrapper
    mon,        \* one call of ObservabilityManager.monitor
    twice       \* results of repeated extraction and unwrapping of the record prec

xvars == <<xrec, xres, xres2, idres, prec, pres>>
hvars == <<ambient, hEvent, hpc, hLoc, hRet, pubIn, pubpc, snsSent>>
cvars == <<evt, lctx, pb, calls, spanStatus>>
wvars == <<api, wo, mon, twice>>
vars == <<xrec, xres, xres2, idres, prec, pres, ambient, hEvent, hpc, hLoc, hRet, pubIn, pubpc, snsSent,
          evt, lctx, pb, calls, spanStatus, api, wo, mon, twice>>

(***************************************************************************)
(* Bounds of the model.                                                    *)
(***************************************************************************)
\* largest number of records in one delivered batch
MaxBatch == 3

(***************************************************************************)
(* Text.                                                                   *)
(***************************************************************************)
Rep(c, n) == [i \in 1..n |-> c]

\* number of hex characters of a trace id and of a span id
TraceIdLen == 32
SpanIdLen == 16

\* `${a}-${b}-${c}-${d}`
Dashed(a, b, c, d) == a \o <<"-">> \o b \o <<"-">> \o c \o <<"-">> \o d

\* s.split('-'): the fields between the dashes; "" gives one empty field
RECURSIVE SplitFrom(_, _, _, _)
SplitFrom(s, i, cur, acc) ==
    IF i > Len(s) THEN Append(acc, cur)
    ELSE IF s[i] = "-" THEN SplitFrom(s, i + 1, <<>>, Append(acc, cur))
    ELSE SplitFrom(s, i + 1, Append(cur, s[i]), acc)

Split(s) == SplitFrom(s, 1, <<>>, <<>>)

(***************************************************************************)
(* JavaScript values that can sit in a carrier slot.                       *)
(*   t = "undef": undefined (the attribute or its stringValue is absent)   *)
(*   t = "str"  : the string v                                             *)
(*   t = "num"  : a number other than 0 (truthy, and has no split method)  *)
(***************************************************************************)
Undef == [t |-> "undef", v |-> <<>>]
Str(s) == [t |-> "str", v |-> s]
Num == [t |-> "num", v |-> <<>>]

Truthy(x) == x.t = "num" \/ (x.t = "str" /\ x.v # <<>>)

\* a || b
Or(a, b) == IF Truthy(a) THEN a ELSE b

\* parts[i] of a JavaScript array (i counted from 0): undefined past the end
At(parts, i) == IF i + 1 <= Len(parts) THEN Str(parts[i + 1]) ELSE Undef

(***************************************************************************)
(* Identifiers used as inputs.                                             *)
(***************************************************************************)
V00 == <<"0", "0">>
F01 == <<"0", "1">>
F00 == <<"0", "0">>

\* 68dde6a91b7146f84c4bc23f54f17b0f, the trace id of the published example
TraceT == <<"6","8","d","d","e","6","a","9","1","b","7","1","4","6","f","8",
            "4","c","4","b","c","2","3","f","5","4","f","1","7","b","0","f">>
\* 50d362e330737a0f
SpanT == <<"5","0","d","3","6","2","e","3","3","0","7","3","7","a","0","f">>
\* 68ddeb470695db892e7bce267091ed11, an unrelated trace
TraceU == <<"6","8","d","d","e","b","4","7","0","6","9","5","d","b","8","9",
            "2","e","7","b","c","e","2","6","7","0","9","1","e","d","1","1">>
\* 0f64cbc462a30019
SpanU == <<"0","f","6","4","c","b","c","4","6","2","a","3","0","0","1","9">>

IdT == Dashed(V00, TraceT, SpanT, F01)
IdU == Dashed(V00, TraceU, SpanU, F01)
\* text that is no identifier: no dash at all, and only two fields
Garbage == <<"g","a","r","b","a","g","e">>
TwoFields == <<"0","0","-","a","b","c">>

HexDigits == {"0","1","2","3","4","5","6","7","8","9","a","b","c","d","e","f"}
IsHex(s, n) == Len(s) = n /\ \A i \in 1..Len(s) : s[i] \in HexDigits

\* the canonical text format: 2-32-16-2 lowercase hex, dash separated
WellFormed(s) ==
    LET p == Split(s) IN
    /\ Len(p) = 4
    /\ IsHex(p[1], 2)
    /\ IsHex(p[2], TraceIdLen)
    /\ IsHex(p[3], SpanIdLen)
    /\ IsHex(p[4], 2)

(***************************************************************************)
(* ObservabilityManager.extractIncomingTraceContext                        *)
(*                                                                         *)
(* A record: messageAttributes (absent, or the two carrier attributes'     *)
(* stringValue) and headers (absent, or its traceparent).                  *)
(* The result: kind "null" (return null), "ctx" (the returned object) or   *)
(* "throw" (a TypeError: split is not a function).                         *)
(***************************************************************************)
NoAttrs == [present |-> FALSE, traceparent |-> Undef, w3c_traceparent_orig |-> Undef]
Attrs(p, o) == [present |-> TRUE, traceparent |-> p, w3c_traceparent_orig |-> o]
NoHeaders == [present |-> FALSE, traceparent |-> Undef]
Headers(h) == [present |-> TRUE, traceparent |-> h]

RetNull == [kind |-> "null", traceId |-> Undef, spanId |-> Undef, traceparent |-> Undef]
RetThrow == [kind |-> "throw", traceId |-> Undef, spanId |-> Undef, traceparent |-> Undef]
NotCalled == [kind |-> "none", traceId |-> Undef, spanId |-> Undef, traceparent |-> Undef]

\* the same with the fields taken one place too early (parts[0], parts[1])
ContextOf_OffByOne(tp) ==
    IF tp.t # "str" THEN RetThrow
    ELSE LET parts == Split(tp.v) IN
         [kind |-> "ctx", traceId |-> At(parts, 0), spanId |-> At(parts, 1),
          traceparent |-> tp]

\* the same with the traceparent rebuilt from its first three fields, flags 00
ContextOf_Reserialized(tp) ==
    IF tp.t # "str" THEN RetThrow
    ELSE LET parts == Split(tp.v) IN
         [kind |-> "ctx", traceId |-> At(parts, 1), spanId |-> At(parts, 2),
          traceparent |-> IF Len(parts) >= 3
                          THEN Str(Dashed(parts[1], parts[2], parts[3], F00))
                          ELSE tp]

\* const parts = tp.split('-'); return {traceId: parts[1], spanId: parts[2], traceparent: tp}
ContextOf(tp) ==
    IF tp.t # "str" THEN RetThrow
    ELSE LET parts == Split(tp.v) IN
         [kind |-> "ctx", traceId |-> At(parts, 1), spanId |-> At(parts, 2),
          traceparent |-> tp]

\* the value the SQS branch selects: traceparent?.stringValue || w3c_traceparent_orig?.stringValue
SelectedCarrier(ma) == Or(ma.traceparent, ma.w3c_traceparent_orig)

\* the same without the `if (traceparent)` guards: split is called on whatever was read
extractIncomingTraceContext_NoGuard(record) ==
    IF record.messageAttributes.present
    THEN ContextOf(SelectedCarrier(record.messageAttributes))
    ELSE IF record.headers.present
    THEN ContextOf(record.headers.traceparent)
    ELSE RetNull

\* the same with the header read before the carrier attributes
extractIncomingTraceContext_HeaderFirst(record) ==
    IF record.headers.present /\ Truthy(record.headers.traceparent)
    THEN ContextOf(record.headers.traceparent)
    ELSE IF record.messageAttributes.present
            /\ Truthy(SelectedCarrier(record.messageAttributes))
    THEN ContextOf(SelectedCarrier(record.messageAttributes))
    ELSE RetNull

extractIncomingTraceContext(record) ==
    IF record.messageAttributes.present
       /\ Truthy(SelectedCarrier(record.messageAttributes))
    THEN ContextOf(SelectedCarrier(record.messageAttributes))
    ELSE IF record.headers.present /\ Truthy(record.headers.traceparent)
    THEN ContextOf(record.headers.traceparent)
    ELSE RetNull

(***************************************************************************)
(* The publisher's host runtime.                                           *)
(*   span: the active span of the OpenTelemetry context (present or not),  *)
(*         with its spanContext's traceId, spanId and traceFlags           *)
(*   xray: the _X_AMZN_TRACE_ID variable: unset ("none"), set to text the  *)
(*         pattern does not match ("nomatch"), or matched ("match") with   *)
(*         the groups the pattern captures                                 *)
(***************************************************************************)
NoSpan == [present |-> FALSE, traceId |-> <<>>, spanId |-> <<>>, traceFlags |-> 0]
Span(tid, sid, fl) == [present |-> TRUE, traceId |-> tid, spanId |-> sid, traceFlags |-> fl]
NoXray == [k |-> "none", timestamp |-> <<>>, suffix |-> <<>>, parent |-> <<>>, sampled |-> "0"]
BadXray == [k |-> "nomatch", timestamp |-> <<>>, suffix |-> <<>>, parent |-> <<>>, sampled |-> "0"]
Xray(ts, sfx, par, smp) ==
    [k |-> "match", timestamp |-> ts, suffix |-> sfx, parent |-> par, sampled |-> smp]

\* the same with every flag bit tested instead of bit 0
FlagsText_AnyBit(traceFlags) == IF traceFlags # 0 THEN F01 ELSE F00

\* (sc.traceFlags & 0x01) ? "01" : "00"
FlagsText(traceFlags) == IF traceFlags % 2 = 1 THEN F01 ELSE F00

\* Method 1 and Method 3 read the same span context of the active context
SpanTraceparent(span) ==
    IF span.present /\ span.traceId # <<>> /\ span.spanId # <<>>
    THEN Str(Dashed(V00, span.traceId, span.spanId, FlagsText(span.traceFlags)))
    ELSE Undef

\* Method 2: Root=1-<8 hex>-<24 hex>;Parent=<16 hex>;Sampled=<0|1>
XrayTraceparent(xray) ==
    IF xray.k = "match"
    THEN Str(Dashed(V00, xray.timestamp \o xray.suffix, xray.parent,
                    IF xray.sampled = "1" THEN F01 ELSE F00))
    ELSE Undef

\* null is modelled as Undef: both are falsy and the handler only tests truthiness
getTraceparentFromActiveSpan(amb) ==
    Or(SpanTraceparent(amb.span), Or(XrayTraceparent(amb.xray), SpanTraceparent(amb.span)))

(***************************************************************************)
(* Random identifiers: Array.from({length: n}, () => random hex digit).    *)
(* The digits Math.random can give are any of the 16; the model draws the  *)
(* digit from RandDigits and repeats it.                                   *)
(***************************************************************************)
RandDigits == {"0", "3", "c"}
\* the same one digit short
RandomHex_Short(n) == { Rep(d, n - 1) : d \in RandDigits }
RandomHex(n) == { Rep(d, n) : d \in RandDigits }

\* every value generateW3CTraceparent (publisher) can return
generateW3CTraceparent ==
    { Dashed(V00, tid, sid, F01) : tid \in RandomHex(TraceIdLen), sid \in RandomHex(SpanIdLen) }

\* every value SNSPublisher.generateFallbackTrace can return
generateFallbackTrace ==
    { Dashed(V00, tid, sid, F01) : tid \in RandomHex(TraceIdLen), sid \in RandomHex(SpanIdLen) }

(***************************************************************************)
(* Messages handed to the SNS client.  An attribute map gives, for each    *)
(* attribute name, its StringValue (Undef: the map has no such attribute). *)
(***************************************************************************)
AttrKeys == {"traceparent", "w3c_traceparent_orig", "orderId"}
NoAttributes == [k \in AttrKeys |-> Undef]

(***************************************************************************)
(* JSON.  A text is what JSON.parse is given; a value is what it returns.  *)
(*   message text [k, p]: absent ("undef"), "" ("empty"), text that is not *)
(*     JSON ("bad"), or the JSON text of the business payload named p      *)
(*     ("json"; the payload named "null" is the JSON value null)           *)
(*   value [j, Type, Message, name]: null, or an object with its Type and  *)
(*     Message properties and a name standing for its other properties     *)
(*   body text [k, v]: absent, not JSON, or the JSON text of the value v   *)
(***************************************************************************)
NoText == [k |-> "undef", p |-> ""]
EmptyText == [k |-> "empty", p |-> ""]
BadText == [k |-> "bad", p |-> ""]
JsonText(p) == [k |-> "json", p |-> p]

JNull == [j |-> "null", Type |-> "", Message |-> NoText, name |-> ""]
Payload(p) ==
    IF p = "null" THEN JNull
    ELSE [j |-> "obj", Type |-> "", Message |-> NoText, name |-> p]
Envelope(type, msg) == [j |-> "obj", Type |-> type, Message |-> msg, name |-> "envelope"]

NoBody == [k |-> "undef", v |-> JNull]
BadBody == [k |-> "bad", v |-> JNull]
BodyOf(v) == [k |-> "json", v |-> v]

\* JSON.parse(record.body): a value, or a SyntaxError
JSONParse(body) == [ok |-> body.k = "json", val |-> body.v]
\* JSON.parse(body.Message)
JSONParseMessage(msg) == [ok |-> msg.k = "json", val |-> Payload(msg.p)]
\* JSON.stringify(payload)
JSONStringify(p) == JsonText(p)

(***************************************************************************)
(* The publisher Lambda handler (src/src/publisher/index.mjs).             *)
(***************************************************************************)
OrderId == <<"O", "R", "D">>

\* the same with the runtime's identifier preferred to the incoming one
ChooseTraceparent_OtelFirst(incoming, otel) ==
    IF Truthy(otel) THEN {otel}
    ELSE IF Truthy(incoming) THEN {incoming}
    ELSE { Str(g) : g \in generateW3CTraceparent }

\* incomingTraceparent || otelTraceparent || generateW3CTraceparent():
\* every value the expression can take (the generator runs only when reached)
ChooseTraceparent(incoming, otel) ==
    IF Truthy(incoming) THEN {incoming}
    ELSE IF Truthy(otel) THEN {otel}
    ELSE { Str(g) : g \in generateW3CTraceparent }

TraceparentSource(incoming, otel) ==
    IF Truthy(incoming) THEN "incoming"
    ELSE IF Truthy(otel) THEN "otel"
    ELSE "generated"

\* the same with the backup carrier left out
HandlerAttributes_NoBackup(tp) ==
    [k \in AttrKeys |->
        IF k = "traceparent" THEN tp
        ELSE IF k = "w3c_traceparent_orig" THEN Undef
        ELSE Str(OrderId)]

\* messageAttributes as built at lines 130-152
HandlerAttributes(tp) ==
    [k \in AttrKeys |->
        IF k \in {"traceparent", "w3c_traceparent_orig"} THEN tp ELSE Str(OrderId)]

\* the handler's return value (lines 160-167)
HandlerReturn(loc) ==
    [ok |-> TRUE, traceparent |-> loc.traceparent, traceparentSource |-> loc.source]

NoReturn == [ok |-> FALSE, traceparent |-> Undef, traceparentSource |-> ""]
NoLocals == [traceparent |-> Undef, otel |-> Undef, source |-> ""]

\* lines 57-158, up to the call of sns.send: a TypeError at line 124 when the
\* traceparent has no split method, else the command is handed to the SNS client
PublisherHandler ==
    /\ hpc = "ready"
    /\ LET incoming == hEvent.traceparent
           otel == getTraceparentFromActiveSpan(ambient)
       IN \E tp \in ChooseTraceparent(incoming, otel) :
            IF tp.t # "str"
            THEN /\ hpc' = "rejected"
                 /\ UNCHANGED <<hLoc, snsSent>>
            ELSE /\ hpc' = "sending"
                 /\ hLoc' = [traceparent |-> tp, otel |-> otel,
                             source |-> TraceparentSource(incoming, otel)]
                 /\ snsSent' = Append(snsSent,
                        [by |-> "handler", Message |-> JSONStringify("order"),
                         MessageAttributes |-> HandlerAttributes(tp)])
    /\ UNCHANGED <<xvars, wvars, ambient, hEvent, hRet, pubIn, pubpc, cvars>>

\* await sns.send(...) resolves: the handler returns
SnsSendOk ==
    /\ hpc = "sending"
    /\ hpc' = "returned"
    /\ hRet' = HandlerReturn(hLoc)
    /\ UNCHANGED <<xvars, wvars, ambient, hEvent, hLoc, pubIn, pubpc, snsSent, cvars>>

\* await sns.send(...) rejects: the handler rejects
SnsSendFails ==
    /\ hpc = "sending"
    /\ hpc' = "rejected"
    /\ UNCHANGED <<xvars, wvars, ambient, hEvent, hLoc, hRet, pubIn, pubpc, snsSent, cvars>>

(***************************************************************************)
(* SNSPublisher.publish (src/index.js).                                    *)
(***************************************************************************)
NoTraceContext == [present |-> FALSE, traceId |-> <<>>, spanId |-> <<>>, traceparent |-> Undef]

\* ObservabilityManager.getTraceContext for an observability manager whose
\* currentSpan is `currentSpan`
getTraceContext(currentSpan) ==
    IF ~currentSpan.present THEN NoTraceContext
    ELSE [present |-> TRUE, traceId |-> currentSpan.traceId, spanId |-> currentSpan.spanId,
          traceparent |-> Str(Dashed(V00, currentSpan.traceId, currentSpan.spanId,
                                     FlagsText(currentSpan.traceFlags)))]

\* new ObservabilityManager(serviceName): this.currentSpan = null, and publish
\* never calls init
ConstructedSpan == NoSpan

\* traceContext?.traceparent || this.generateFallbackTrace(): every value it can take
CarrierValue(traceContext) ==
    IF Truthy(traceContext.traceparent) THEN {traceContext.traceparent}
    ELSE { Str(g) : g \in generateFallbackTrace }

\* {...options.messageAttributes, traceparent: p, w3c_traceparent_orig: o}
PublishAttributes(options, p, o) ==
    [k \in AttrKeys |->
        IF k = "traceparent" THEN p
        ELSE IF k = "w3c_traceparent_orig" THEN o
        ELSE options.messageAttributes[k]]

\* {TopicArn, Message, MessageAttributes: messageAttributes, ...options.publishOptions}
PublishCommandInput(options, messageAttributes) ==
    [by |-> "publish", Message |-> JSONStringify("order"),
     MessageAttributes |->
        IF options.publishOptions.hasMessageAttributes
        THEN options.publishOptions.MessageAttributes
        ELSE messageAttributes]

\* lines 362-394, up to the call of sns.send: a TypeError at line 369 when message
\* is undefined, else the command is handed to the SNS client
Publish ==
    /\ pubpc = "ready"
    /\ IF ~pubIn.messageDefined
       THEN /\ pubpc' = "rejected"
            /\ UNCHANGED snsSent
       ELSE LET traceContext == getTraceContext(ConstructedSpan) IN
            \E p \in CarrierValue(traceContext), o \in CarrierValue(traceContext) :
               /\ pubpc' = "sending"
               /\ snsSent' = Append(snsSent,
                      PublishCommandInput(pubIn.options,
                                          PublishAttributes(pubIn.options, p, o)))
    /\ UNCHANGED <<xvars, wvars, ambient, hEvent, hpc, hLoc, hRet, pubIn, cvars>>

\* sns.send resolves: monitor returns the result
PublishSendOk ==
    /\ pubpc = "sending"
    /\ pubpc' = "returned"
    /\ UNCHANGED <<xvars, wvars, ambient, hEvent, hpc, hLoc, hRet, pubIn, snsSent, cvars>>

\* sns.send (or the import of the client) rejects: monitor rethrows
PublishSendFails ==
    /\ pubpc = "sending"
    /\ pubpc' = "rejected"
    /\ UNCHANGED <<xvars, wvars, ambient, hEvent, hpc, hLoc, hRet, pubIn, snsSent, cvars>>

(***************************************************************************)
(* SQSProcessor (src/index.js): parseMessage and processBatch.             *)
(*                                                                         *)
(* A record of the event is an object with messageId, body,                *)
(* messageAttributes and headers, or null (isObject = FALSE).              *)
(***************************************************************************)
Inv == {1, 2}

Rec(id, body, ma) ==
    [isObject |-> TRUE, messageId |-> id, body |-> body,
     messageAttributes |-> ma, headers |-> NoHeaders]
NullRec ==
    [isObject |-> FALSE, messageId |-> 0, body |-> NoBody,
     messageAttributes |-> NoAttrs, headers |-> NoHeaders]

\* a non-empty string
TextTruthy(msg) == msg.k \in {"bad", "json"}

ParseFails == [ok |-> FALSE, val |-> JNull]

\* parseMessage: the payload, or the Error thrown from its catch block
\* (JSON.parse fails, or body is null and body.Type throws)
parseMessage(record) ==
    LET body == JSONParse(record.body) IN
    IF ~body.ok \/ body.val.j = "null" THEN ParseFails
    ELSE IF body.val.Type = "Notification" /\ TextTruthy(body.val.Message)
    THEN LET inner == JSONParseMessage(body.val.Message) IN
         IF inner.ok THEN inner ELSE ParseFails
    ELSE [ok |-> TRUE, val |-> body.val]

\* the event argument: undefined, or an object with or without Records
UndefEvent == [t |-> "undef", hasRecords |-> FALSE, Records |-> <<>>]
NoRecordsEvent == [t |-> "obj", hasRecords |-> FALSE, Records |-> <<>>]
RecordsEvent(rs) == [t |-> "obj", hasRecords |-> TRUE, Records |-> rs]

\* event.Records || []
RecordsOf(event) == IF event.hasRecords THEN event.Records ELSE <<>>

(***************************************************************************)
(* The Lambda context argument:                                            *)
(*   "undefined"   : no context                                            *)
(*   "lambda"      : the context object of the Lambda runtime              *)
(*                   (awsRequestId, functionName, ...; no active method)   *)
(*   "activeNoSpan": an object with an active() method giving an           *)
(*                   OpenTelemetry context that holds no span              *)
(*   "activeSpan"  : the same, holding a span                              *)
(* In init the parameter `context` shadows the imported OpenTelemetry      *)
(* `context`, so context.active() is a call on this argument.              *)
(***************************************************************************)
ContextKinds == {"undefined", "lambda", "activeNoSpan", "activeSpan"}

\* ObservabilityManager.init (lines 21-43) throws: context.active() at line 22,
\* or event.Records in detectEventType (line 202) for an undefined event
InitThrows(event, context) ==
    \/ context \in {"undefined", "lambda"}
    \/ event.t = "undef"

\* this.currentSpan after init
HasSpan(context) == context = "activeSpan"

\* the locals of an invocation: results, failures, the loop position, and what it returned
IdlePB ==
    [pc |-> "idle", idx |-> 1, hasSpan |-> FALSE, results |-> <<>>, failures |-> <<>>,
     ret |-> <<>>]

\* the catch block (lines 300-315) with the failure not reported for redelivery
RecordError_NoFailure(st, record) ==
    [st EXCEPT !.pc = "loop", !.idx = @ + 1,
               !.results = Append(@, [messageId |-> record.messageId, status |-> "error"])]

\* the catch block (lines 300-315) with the per-record result not recorded
RecordError_NoResult(st, record) ==
    [st EXCEPT !.pc = "loop", !.idx = @ + 1,
               !.failures = Append(@, [itemIdentifier |-> record.messageId])]

\* the catch block (lines 300-315): failures.push and results.push
RecordError(st, record) ==
    [st EXCEPT !.pc = "loop", !.idx = @ + 1,
               !.failures = Append(@, [itemIdentifier |-> record.messageId]),
               !.results = Append(@, [messageId |-> record.messageId, status |-> "error"])]

\* lines 289-293 with the record also reported for redelivery
RecordSuccess_AlsoFailure(st, record) ==
    [st EXCEPT !.pc = "loop", !.idx = @ + 1,
               !.failures = Append(@, [itemIdentifier |-> record.messageId]),
               !.results = Append(@, [messageId |-> record.messageId, status |-> "success"])]

\* lines 289-293 with the loop going on before the outcome is recorded
RecordSuccess_NoResult(st, record) ==
    [st EXCEPT !.pc = "loop", !.idx = @ + 1]

\* lines 289-293: results.push of a success
RecordSuccess(st, record) ==
    [st EXCEPT !.pc = "loop", !.idx = @ + 1,
               !.results = Append(@, [messageId |-> record.messageId, status |-> "success"])]

\* handleError (lines 83-100): the span, when there is one, gets status ERROR
StatusAfterError(st, status) == IF st.hasSpan THEN "ERROR" ELSE status
\* the same with an ERROR status left as it is
StatusAfterComplete_KeepError(st, status) ==
    IF st.hasSpan /\ status # "ERROR" THEN "OK" ELSE status
\* complete (lines 218-229): the span, when there is one, gets status OK
StatusAfterComplete(st, status) == IF st.hasSpan THEN "OK" ELSE status

\* lines 244-249: init and the first log line; a throw here rejects processBatch
PBStart(i) ==
    /\ pb[i].pc = "ready"
    /\ IF InitThrows(evt[i], lctx[i])
       THEN pb' = [pb EXCEPT ![i].pc = "rejected"]
       ELSE pb' = [pb EXCEPT ![i].pc = "loop", ![i].hasSpan = HasSpan(lctx[i])]
    /\ UNCHANGED <<xvars, wvars, hvars, evt, lctx, calls, spanStatus>>

\* the same turn of the loop with the trace context of the batch's first record
\* handed to every callback
PBRecord_FirstContext(i) ==
    /\ pb[i].pc = "loop"
    /\ pb[i].idx <= Len(RecordsOf(evt[i]))
    /\ LET record == RecordsOf(evt[i])[pb[i].idx]
           traceContext == extractIncomingTraceContext(RecordsOf(evt[i])[1])
           messageData == parseMessage(record)
       IN IF ~record.isObject
          THEN /\ pb' = [pb EXCEPT ![i].pc = "rejected"]
               /\ UNCHANGED <<calls, spanStatus>>
          ELSE IF traceContext.kind = "throw" \/ ~messageData.ok
          THEN /\ pb' = [pb EXCEPT ![i] = RecordError(@, record)]
               /\ spanStatus' = StatusAfterError(pb[i], spanStatus)
               /\ UNCHANGED calls
          ELSE /\ pb' = [pb EXCEPT ![i].pc = "awaiting"]
               /\ calls' = Append(calls,
                      [inv |-> i, messageId |-> record.messageId,
                       messageData |-> messageData.val, traceContext |-> traceContext,
                       record |-> record, outcome |-> "pending"])
               /\ UNCHANGED spanStatus
    /\ UNCHANGED <<xvars, wvars, hvars, evt, lctx>>

\* one turn of the loop up to the await (lines 254-287): context extraction, parse,
\* and the call of the business callback; a throw goes to the catch block, and a
\* null record makes the catch block itself throw (record.messageId at line 302)
PBRecord(i) ==
    /\ pb[i].pc = "loop"
    /\ pb[i].idx <= Len(RecordsOf(evt[i]))
    /\ LET record == RecordsOf(evt[i])[pb[i].idx]
           traceContext == extractIncomingTraceContext(record)
           messageData == parseMessage(record)
       IN IF ~record.isObject
          THEN /\ pb' = [pb EXCEPT ![i].pc = "rejected"]
               /\ UNCHANGED <<calls, spanStatus>>
          ELSE IF traceContext.kind = "throw" \/ ~messageData.ok
          THEN /\ pb' = [pb EXCEPT ![i] = RecordError(@, record)]
               /\ spanStatus' = StatusAfterError(pb[i], spanStatus)
               /\ UNCHANGED calls
          ELSE /\ pb' = [pb EXCEPT ![i].pc = "awaiting"]
               /\ calls' = Append(calls,
                      [inv |-> i, messageId |-> record.messageId,
                       messageData |-> messageData.val, traceContext |-> traceContext,
                       record |-> record, outcome |-> "pending"])
               /\ UNCHANGED spanStatus
    /\ UNCHANGED <<xvars, wvars, hvars, evt, lctx>>

\* the index in calls of the pending call of invocation i
PendingCall(i) ==
    CHOOSE n \in 1..Len(calls) : calls[n].inv = i /\ calls[n].outcome = "pending"

\* the business callback resolves: lines 289-298
PBResolve(i) ==
    /\ pb[i].pc = "awaiting"
    /\ LET record == RecordsOf(evt[i])[pb[i].idx] IN
       /\ pb' = [pb EXCEPT ![i] = RecordSuccess(@, record)]
       /\ calls' = [calls EXCEPT ![PendingCall(i)].outcome = "resolved"]
    /\ UNCHANGED <<xvars, wvars, hvars, evt, lctx, spanStatus>>

\* the same with failures kept in one list shared by the invocations
PBReject_Shared(i) ==
    /\ pb[i].pc = "awaiting"
    /\ LET record == RecordsOf(evt[i])[pb[i].idx] IN
       /\ pb' = [k \in Inv |->
                    IF k = i THEN RecordError(pb[k], record)
                    ELSE [pb[k] EXCEPT !.failures =
                            Append(@, [itemIdentifier |-> record.messageId])]]
       /\ calls' = [calls EXCEPT ![PendingCall(i)].outcome = "rejected"]
       /\ spanStatus' = StatusAfterError(pb[i], spanStatus)
    /\ UNCHANGED <<xvars, wvars, hvars, evt, lctx>>

\* the business callback throws or rejects: monitor rethrows, lines 300-315
PBReject(i) ==
    /\ pb[i].pc = "awaiting"
    /\ LET record == RecordsOf(evt[i])[pb[i].idx] IN
       /\ pb' = [pb EXCEPT ![i] = RecordError(@, record)]
       /\ calls' = [calls EXCEPT ![PendingCall(i)].outcome = "rejected"]
       /\ spanStatus' = StatusAfterError(pb[i], spanStatus)
    /\ UNCHANGED <<xvars, wvars, hvars, evt, lctx>>

\* after the last record (lines 318-327): complete and return
PBFinish(i) ==
    /\ pb[i].pc = "loop"
    /\ pb[i].idx > Len(RecordsOf(evt[i]))
    /\ pb' = [pb EXCEPT ![i].pc = "returned", ![i].ret = pb[i].failures]
    /\ spanStatus' = StatusAfterComplete(pb[i], spanStatus)
    /\ UNCHANGED <<xvars, wvars, hvars, evt, lctx, calls>>

(***************************************************************************)
(* The relay (SNS to SQS), outside the repository: it delivers a published *)
(* message as one SQS record, raw or wrapped in a Notification envelope,   *)
(* leaves w3c_traceparent_orig untouched, and keeps, drops or regenerates  *)
(* the traceparent attribute.                                              *)
(***************************************************************************)
RelayedPrimary(msg) == {msg.MessageAttributes["traceparent"], Undef, Str(IdU)}

\* the body of a raw delivery: the Message text itself
RawBody(msg) ==
    IF msg.k = "json" THEN BodyOf(Payload(msg.p))
    ELSE IF msg.k = "undef" THEN NoBody
    ELSE BadBody

RelayedBody(msg) == {RawBody(msg.Message), BodyOf(Envelope("Notification", msg.Message))}

Relay ==
    /\ hpc = "returned"
    /\ pb[1].pc = "idle"
    /\ \E primary \in RelayedPrimary(snsSent[1]), body \in RelayedBody(snsSent[1]) :
         evt' = [evt EXCEPT ![1] =
                    RecordsEvent(<<Rec(1, body,
                        Attrs(primary, snsSent[1].MessageAttributes["w3c_traceparent_orig"]))>>)]
    /\ pb' = [pb EXCEPT ![1].pc = "ready"]
    /\ UNCHANGED <<xvars, wvars, hvars, lctx, calls, spanStatus>>

(***************************************************************************)
(* ObservabilityManager.monitor, withObservability and APIHandler.handle   *)
(* (src/index.js).                                                         *)
(*                                                                         *)
(* A JavaScript value a callback settles with is described by its kind:    *)
(* "response" (an object with a statusCode), "plain" (an object without),  *)
(* "undefined", "function", "Error" (an Error the callback threw) and      *)
(* "TypeError" (an Error raised inside the library).  The body of a        *)
(* response is described by the error and requestId fields of its JSON.    *)
(***************************************************************************)
NoFields == [error |-> "", requestId |-> Undef]
Obj(kind, code, body) == [kind |-> kind, statusCode |-> code, body |-> body]
Response(code) == Obj("response", code, NoFields)
PlainObject == Obj("plain", 0, NoFields)
UndefinedValue == Obj("undefined", 0, NoFields)
AFunction == Obj("function", 0, NoFields)
BusinessError == Obj("Error", 0, NoFields)
TypeError == Obj("TypeError", 0, NoFields)

\* how a promise settled: fulfilled with v, or rejected with v
Settled(how, v) == [k |-> how, v |-> v]
NotSettled == [k |-> "none", v |-> UndefinedValue]

\* what the business callback can return, and what it can throw or reject with
\* (a promise rejected without a reason rejects with undefined)
ResultValues == {Response(200), Response(404), PlainObject, UndefinedValue, AFunction}
ThrownValues == {BusinessError, UndefinedValue}

\* a log message `${prefix}_${suffix}`
Msg(prefix, suffix) == <<prefix, suffix>>

\* error.message (lines 131 and 137) can be read: not for undefined or null
MessageReadable(e) == e.kind # "undefined"

\* how monitor settles when its operation settled with op: the catch block reads
\* error.message before it logs, so a rejection with undefined ends in a TypeError
MonitorOutcome(op) ==
    IF op.k = "throw" /\ ~MessageReadable(op.v) THEN Settled("throw", TypeError) ELSE op

\* the log messages monitor emits once its operation has settled with op
MonitorSettledLogs(name, op) ==
    IF op.k = "value" THEN <<Msg(name, "completed")>>
    ELSE IF MessageReadable(op.v) THEN <<Msg(name, "failed")>>
    ELSE <<>>

IdleMonitor ==
    [pc |-> "idle", name |-> "", hasSpan |-> FALSE, logs |-> <<>>, op |-> NotSettled,
     out |-> NotSettled]

\* monitor up to the await of the operation (lines 105-111)
MonitorStart ==
    /\ mon.pc = "ready"
    /\ mon' = [mon EXCEPT !.pc = "awaiting", !.logs = <<Msg(mon.name, "started")>>]
    /\ UNCHANGED <<xvars, hvars, cvars, api, wo, twice>>

\* the operation settles with op: lines 111-127, or the catch block 129-146
MonitorSettle(op) ==
    /\ mon.pc = "awaiting"
    /\ mon' = [mon EXCEPT !.pc = IF MonitorOutcome(op).k = "value" THEN "returned" ELSE "threw",
                          !.logs = @ \o MonitorSettledLogs(mon.name, op),
                          !.op = op,
                          !.out = MonitorOutcome(op)]
    /\ UNCHANGED <<xvars, hvars, cvars, api, wo, twice>>

MonitorOperationResolves == \E v \in ResultValues : MonitorSettle(Settled("value", v))
MonitorOperationRejects == \E e \in ThrownValues : MonitorSettle(Settled("throw", e))

(***************************************************************************)
(* withObservability(serviceName, handler)(event, context).                *)
(***************************************************************************)
IdleWrapper ==
    [pc |-> "idle", event |-> NoRecordsEvent, context |-> "undefined", hasSpan |-> FALSE,
     logs |-> <<>>, status |-> "UNSET", handled |-> UndefinedValue, op |-> NotSettled,
     out |-> NotSettled]

\* lines 483-488: init, then monitor up to the await of the handler
WrapperStart ==
    /\ wo.pc = "ready"
    /\ IF InitThrows(wo.event, wo.context)
       THEN wo' = [wo EXCEPT !.pc = "threw", !.out = Settled("throw", TypeError)]
       ELSE wo' = [wo EXCEPT !.pc = "awaiting", !.hasSpan = HasSpan(wo.context),
                             !.logs = <<Msg("function", "started"),
                                        Msg("lambda_execution", "started")>>]
    /\ UNCHANGED <<xvars, hvars, cvars, api, mon, twice>>

\* the handler settles with op: monitor settles, then complete and return
\* (lines 490-491), or handleError and throw (lines 494-495)
WrapperSettle(op) ==
    /\ wo.pc = "awaiting"
    /\ LET m == MonitorOutcome(op) IN
       IF m.k = "value"
       THEN wo' = [wo EXCEPT !.pc = "returned",
                             !.logs = @ \o MonitorSettledLogs("lambda_execution", op)
                                        \o <<Msg("function", "completed")>>,
                             !.status = StatusAfterComplete(wo, @),
                             !.op = op,
                             !.out = m]
       ELSE wo' = [wo EXCEPT !.pc = "threw",
                             !.logs = @ \o MonitorSettledLogs("lambda_execution", op)
                                        \o <<Msg("operation", "failed")>>,
                             !.status = StatusAfterError(wo, @),
                             !.handled = m.v,
                             !.op = op,
                             !.out = m]
    /\ UNCHANGED <<xvars, hvars, cvars, api, mon, twice>>

WrapperHandlerResolves == \E v \in ResultValues : WrapperSettle(Settled("value", v))
WrapperHandlerRejects == \E e \in ThrownValues : WrapperSettle(Settled("throw", e))

(***************************************************************************)
(* APIHandler.handle(event, context, businessLogic).                       *)
(***************************************************************************)
\* the same without the request id in the body
ErrorResponse_NoRequestId(awsRequestId) ==
    Obj("response", 500, [error |-> "Internal Server Error", requestId |-> Undef])

\* {statusCode: 500, body: JSON.stringify({error: 'Internal Server Error',
\*  requestId: context.awsRequestId})} (lines 467-473)
ErrorResponse(awsRequestId) ==
    Obj("response", 500, [error |-> "Internal Server Error", requestId |-> awsRequestId])

\* result.statusCode and JSON.stringify(result).length (lines 456-457) can be
\* evaluated: not for undefined, and JSON.stringify of a function is undefined
Readable(result) == result.kind \notin {"undefined", "function"}

\* an API Gateway event with its headers, or an undefined event
APIEvent(h) ==
    [t |-> "obj", hasRecords |-> FALSE, Records |-> <<>>, messageAttributes |-> NoAttrs,
     headers |-> h]
UndefAPIEvent ==
    [t |-> "undef", hasRecords |-> FALSE, Records |-> <<>>, messageAttributes |-> NoAttrs,
     headers |-> NoHeaders]

RequestId == <<"r", "e", "q">>

IdleAPI ==
    [pc |-> "idle", event |-> APIEvent(NoHeaders), context |-> "undefined",
     awsRequestId |-> Undef, hasSpan |-> FALSE, status |-> "UNSET", called |-> FALSE,
     traceContext |-> NotCalled, op |-> NotSettled, out |-> NotSettled]

\* lines 425-445: init, outside the try block; then trace extraction and the call of
\* the business logic; a throw of the extraction goes to the catch block (462-473)
APIStart ==
    /\ api.pc = "ready"
    /\ LET tc == extractIncomingTraceContext(api.event) IN
       IF InitThrows(api.event, api.context)
       THEN api' = [api EXCEPT !.pc = "threw", !.out = Settled("throw", TypeError)]
       ELSE IF tc.kind = "throw"
       THEN api' = [api EXCEPT !.pc = "returned", !.hasSpan = HasSpan(api.context),
                               !.status = IF HasSpan(api.context) THEN "ERROR" ELSE @,
                               !.traceContext = tc,
                               !.out = Settled("value", ErrorResponse(api.awsRequestId))]
       ELSE api' = [api EXCEPT !.pc = "awaiting", !.hasSpan = HasSpan(api.context),
                               !.called = TRUE, !.traceContext = tc]
    /\ UNCHANGED <<xvars, hvars, cvars, wo, mon, twice>>

\* the business logic settles with op: monitor settles, then complete and return
\* (lines 455-460), or the catch block (462-473)
APISettle(op) ==
    /\ api.pc = "awaiting"
    /\ LET m == MonitorOutcome(op) IN
       IF m.k = "value" /\ Readable(m.v)
       THEN api' = [api EXCEPT !.pc = "returned",
                               !.status = StatusAfterComplete(api, @),
                               !.op = op,
                               !.out = m]
       ELSE api' = [api EXCEPT !.pc = "returned",
                               !.status = StatusAfterError(api, @),
                               !.op = op,
                               !.out = Settled("value", ErrorResponse(api.awsRequestId))]
    /\ UNCHANGED <<xvars, hvars, cvars, wo, mon, twice>>

APILogicResolves == \E v \in ResultValues : APISettle(Settled("value", v))
APILogicRejects == \E e \in ThrownValues : APISettle(Settled("throw", e))

(***************************************************************************)
(* Repeated application of extractIncomingTraceContext and parseMessage    *)
(* to one record.                                                          *)
(***************************************************************************)
\* largest number of applications of each function to the record
MaxApply == 2

NotApplied == [x |-> <<>>, p |-> <<>>]

\* parseMessage with the body cleared once it has been read
ParseApply_Consuming ==
    /\ Len(twice.p) < MaxApply
    /\ twice' = [twice EXCEPT !.p = Append(@, parseMessage(prec))]
    /\ prec' = [prec EXCEPT !.body = NoBody]
    /\ UNCHANGED <<xrec, xres, xres2, idres, pres, hvars, cvars, api, wo, mon>>

\* parseMessage(record): the record is only read (lines 330-343)
ParseApply ==
    /\ Len(twice.p) < MaxApply
    /\ twice' = [twice EXCEPT !.p = Append(@, parseMessage(prec))]
    /\ prec' = prec
    /\ UNCHANGED <<xrec, xres, xres2, idres, pres, hvars, cvars, api, wo, mon>>

\* extractIncomingTraceContext(record): the record is only read (lines 169-196)
ExtractApply ==
    /\ Len(twice.x) < MaxApply
    /\ twice' = [twice EXCEPT !.x = Append(@, extractIncomingTraceContext(prec))]
    /\ prec' = prec
    /\ UNCHANGED <<xrec, xres, xres2, idres, pres, hvars, cvars, api, wo, mon>>

WIdle ==
    /\ api = IdleAPI
    /\ wo = IdleWrapper
    /\ mon = IdleMonitor
    /\ twice = NotApplied

(***************************************************************************)
(* Inputs and initial states.                                              *)
(***************************************************************************)
Ambients ==
    { [span |-> sp, xray |-> xr] :
        sp \in {NoSpan} \cup { Span(TraceT, SpanT, fl) : fl \in 0..3 },
        xr \in {NoXray, BadXray}
               \cup { Xray(SubSeq(TraceU, 1, 8), SubSeq(TraceU, 9, TraceIdLen), SpanU, smp) :
                        smp \in {"0", "1"} } }

HandlerEvents == { [traceparent |-> x] : x \in {Undef, Str(<<>>), Str(IdT), Str(Garbage), Num} }

OptionAttributes ==
    { NoAttributes,
      [NoAttributes EXCEPT !["orderId"] = Str(OrderId)],
      [NoAttributes EXCEPT !["orderId"] = Str(OrderId), !["traceparent"] = Str(IdU)] }
PublishOptions ==
    { [hasMessageAttributes |-> FALSE, MessageAttributes |-> NoAttributes],
      [hasMessageAttributes |-> TRUE,
       MessageAttributes |-> [NoAttributes EXCEPT !["orderId"] = Str(OrderId)]] }
PublishInputs ==
    { [messageDefined |-> d, options |-> [messageAttributes |-> ma, publishOptions |-> po]] :
        d \in BOOLEAN, ma \in OptionAttributes, po \in PublishOptions }
NoPublish ==
    [messageDefined |-> FALSE,
     options |-> [messageAttributes |-> NoAttributes,
                  publishOptions |-> [hasMessageAttributes |-> FALSE,
                                      MessageAttributes |-> NoAttributes]]]

\* the shapes of the records of a batch: body and messageAttributes
RecordShapes ==
    { [isObject |-> TRUE, body |-> BodyOf(Payload("orderA")),
       messageAttributes |-> Attrs(Str(IdT), Str(IdT))],
      [isObject |-> TRUE, body |-> BodyOf(Envelope("Notification", JsonText("orderB"))),
       messageAttributes |-> Attrs(Str(IdU), Str(IdT))],
      [isObject |-> TRUE, body |-> BadBody, messageAttributes |-> NoAttrs],
      [isObject |-> TRUE, body |-> BodyOf(Envelope("Notification", BadText)),
       messageAttributes |-> Attrs(Str(IdT), Str(IdT))],
      [isObject |-> TRUE, body |-> BodyOf(Payload("orderC")),
       messageAttributes |-> Attrs(Num, Undef)],
      [isObject |-> TRUE, body |-> NoBody, messageAttributes |-> Attrs(Undef, Undef)],
      [isObject |-> FALSE, body |-> NoBody, messageAttributes |-> NoAttrs] }

ShapedRecord(shape, id) ==
    IF shape.isObject THEN Rec(id, shape.body, shape.messageAttributes) ELSE NullRec

BatchEvents ==
    {UndefEvent, NoRecordsEvent}
    \cup { RecordsEvent([i \in 1..n |-> ShapedRecord(f[i], i)]) :
             n \in 0..MaxBatch, f \in [1..MaxBatch -> RecordShapes] }

HIdle ==
    /\ ambient = [span |-> NoSpan, xray |-> NoXray]
    /\ hEvent = [traceparent |-> Undef]
    /\ hpc = "idle"
    /\ hLoc = NoLocals
    /\ hRet = NoReturn
    /\ pubIn = NoPublish
    /\ pubpc = "idle"
    /\ snsSent = <<>>

CIdle ==
    /\ evt = [i \in Inv |-> NoRecordsEvent]
    /\ lctx = [i \in Inv |-> "undefined"]
    /\ pb = [i \in Inv |-> IdlePB]
    /\ calls = <<>>
    /\ spanStatus = "UNSET"

(***************************************************************************)
(* Specification SpecExtract: extractIncomingTraceContext applied to any   *)
(* record of XRecords.                                                     *)
(***************************************************************************)
CarrierVals == {Undef, Str(<<>>), Str(IdT), Str(IdU), Str(Garbage), Str(TwoFields), Num}
HeaderVals == {Undef, Str(IdT), Str(IdU), Str(Garbage), Num}

XRecords ==
    { [messageAttributes |-> ma, headers |-> h] :
        ma \in {NoAttrs} \cup { Attrs(p, o) : p \in CarrierVals, o \in CarrierVals },
        h \in {NoHeaders} \cup { Headers(x) : x \in HeaderVals } }

\* a new record carrying tp: in either carrier attribute, in both, or in the header
Reattached(tp) ==
    { [messageAttributes |-> Attrs(tp, Undef), headers |-> NoHeaders],
      [messageAttributes |-> Attrs(Undef, tp), headers |-> NoHeaders],
      [messageAttributes |-> Attrs(tp, tp), headers |-> NoHeaders],
      [messageAttributes |-> NoAttrs, headers |-> Headers(tp)] }

\* nothing obtained yet from the serializers and the generators
NotObtained == [called |-> FALSE, val |-> Undef]
Obtained(x) == [called |-> TRUE, val |-> x]
NoIdentifiers ==
    [lib |-> [called |-> FALSE, val |-> NoTraceContext], pub |-> NotObtained,
     w3c |-> NotObtained, fallback |-> NotObtained]

NotParsed == [called |-> FALSE, ok |-> FALSE, val |-> JNull]

IdIdle == idres = NoIdentifiers

PIdle ==
    /\ prec = Rec(1, NoBody, NoAttrs)
    /\ pres = NotParsed

XIdle ==
    /\ xrec = [messageAttributes |-> NoAttrs, headers |-> NoHeaders]
    /\ xres = NotCalled
    /\ xres2 = NotCalled
    /\ IdIdle
    /\ PIdle

ExtractInit ==
    /\ WIdle
    /\ xrec \in XRecords
    /\ xres = NotCalled
    /\ xres2 = NotCalled
    /\ IdIdle
    /\ PIdle
    /\ HIdle
    /\ CIdle

Extract ==
    /\ xres = NotCalled
    /\ xres' = extractIncomingTraceContext(xrec)
    /\ UNCHANGED <<xrec, xres2, idres, prec, pres, hvars, cvars, wvars>>

\* the recovered traceparent is attached to a new record and extracted again
ReExtract ==
    /\ xres.kind = "ctx"
    /\ xres2 = NotCalled
    /\ \E record \in Reattached(xres.traceparent) :
          xres2' = extractIncomingTraceContext(record)
    /\ UNCHANGED <<xrec, xres, idres, prec, pres, hvars, cvars, wvars>>

ExtractNext == Extract \/ ReExtract

SpecExtract == ExtractInit /\ [][ExtractNext]_vars

(***************************************************************************)
(* Claims about extractIncomingTraceContext (specification SpecExtract).   *)
(***************************************************************************)
Extracted == xres.kind # "none"
IsIdentifier(x) == x.t = "str" /\ WellFormed(x.v)

\* C1: whenever the record's messageAttributes carry an identifier in
\* w3c_traceparent_orig, extractIncomingTraceContext returns that identifier,
\* whether traceparent is absent, equal or a different identifier.
C1_BackupCarrierWins ==
    (/\ Extracted
     /\ xrec.messageAttributes.present
     /\ IsIdentifier(xrec.messageAttributes.w3c_traceparent_orig)
     /\ \/ xrec.messageAttributes.traceparent = Undef
        \/ IsIdentifier(xrec.messageAttributes.traceparent))
    => /\ xres.kind = "ctx"
       /\ xres.traceparent = xrec.messageAttributes.w3c_traceparent_orig

\* C9: when the messageAttributes carry an identifier in traceparent and nothing in
\* w3c_traceparent_orig, extractIncomingTraceContext returns that identifier: its
\* text unchanged, its second field as traceId and its third field as spanId.
C9_PrimaryOnly ==
    (/\ Extracted
     /\ xrec.messageAttributes.present
     /\ IsIdentifier(xrec.messageAttributes.traceparent)
     /\ xrec.messageAttributes.w3c_traceparent_orig = Undef)
    => LET tp == xrec.messageAttributes.traceparent IN
       /\ xres.kind = "ctx"
       /\ xres.traceparent = tp
       /\ xres.traceId = Str(SubSeq(tp.v, 4, 3 + TraceIdLen))
       /\ xres.spanId = Str(SubSeq(tp.v, 5 + TraceIdLen, 4 + TraceIdLen + SpanIdLen))

C9_Witness ==
    /\ xres.kind = "ctx"
    /\ xrec.messageAttributes.present
    /\ xrec.messageAttributes.traceparent = Str(IdU)
    /\ xrec.messageAttributes.w3c_traceparent_orig = Undef
    /\ xrec.headers.traceparent = Str(IdT)
    /\ xres.traceId = Str(TraceU)

NoTraceAttributes(record) ==
    /\ \/ ~record.messageAttributes.present
       \/ /\ record.messageAttributes.traceparent = Undef
          /\ record.messageAttributes.w3c_traceparent_orig = Undef
    /\ \/ ~record.headers.present
       \/ record.headers.traceparent = Undef

\* C10: for a record with no carrier attribute (messageAttributes missing, or holding
\* neither carrier) and no traceparent header, extractIncomingTraceContext returns
\* null and does not throw.
C10_AbsentIsNull ==
    (Extracted /\ NoTraceAttributes(xrec)) => xres = RetNull

C10_Witness ==
    /\ xres = RetNull
    /\ xrec.messageAttributes.present
    /\ xrec.messageAttributes.traceparent = Undef
    /\ xrec.messageAttributes.w3c_traceparent_orig = Undef
    /\ xrec.headers.present


\* C11: a carrier value that is present but is no well-formed identifier is never
\* returned by extractIncomingTraceContext as the recovered context; it is treated
\* as absent, and a well-formed value in the other carrier slot is returned instead.
C11_MalformedTreatedAbsent ==
    (Extracted /\ xrec.messageAttributes.present) =>
        LET p == xrec.messageAttributes.traceparent
            o == xrec.messageAttributes.w3c_traceparent_orig
        IN /\ xres.kind = "ctx" => IsIdentifier(xres.traceparent)
           /\ (Truthy(p) /\ ~IsIdentifier(p) /\ IsIdentifier(o)) =>
                 (xres.kind = "ctx" /\ xres.traceparent = o)
           /\ (Truthy(o) /\ ~IsIdentifier(o) /\ IsIdentifier(p)) =>
                 (xres.kind = "ctx" /\ xres.traceparent = p)


\* the record carries the identifier t and nothing else in its trace carriers
CarriesOnly(record, t) ==
    \/ /\ record.messageAttributes.present
       /\ <<record.messageAttributes.traceparent,
            record.messageAttributes.w3c_traceparent_orig>>
             \in {<<t, Undef>>, <<Undef, t>>, <<t, t>>}
       /\ record.headers.traceparent \in {Undef, t}
    \/ /\ ~record.messageAttributes.present
       /\ record.headers.traceparent = t

\* C20: for every well-formed identifier text t that a record carries,
\* extractIncomingTraceContext returns traceparent equal to t unchanged, traceId equal
\* to t's second field and spanId equal to t's third field; and attaching the
\* recovered traceparent to a new record and extracting again gives the same result.
C20_RoundTrip ==
    \A t \in {Str(IdT), Str(IdU)} :
        (Extracted /\ CarriesOnly(xrec, t)) =>
            /\ xres.kind = "ctx"
            /\ xres.traceparent = t
            /\ xres.traceId = Str(SubSeq(t.v, 4, 3 + TraceIdLen))
            /\ xres.spanId = Str(SubSeq(t.v, 5 + TraceIdLen, 4 + TraceIdLen + SpanIdLen))
            /\ xres2 # NotCalled => xres2 = xres

C20_Witness ==
    /\ CarriesOnly(xrec, Str(IdU))
    /\ xrec.messageAttributes.traceparent = Undef
    /\ xrec.messageAttributes.w3c_traceparent_orig = Str(IdU)
    /\ xres.traceId = Str(TraceU)
    /\ xres2.kind = "ctx"
    /\ xres2 = xres

\* the carrier attributes of the record yield a value
CarrierYields(record) ==
    /\ record.messageAttributes.present
    /\ \/ Truthy(record.messageAttributes.traceparent)
       \/ Truthy(record.messageAttributes.w3c_traceparent_orig)

\* C24: extractIncomingTraceContext uses record.headers.traceparent only when neither
\* carrier attribute yields a value, and then returns the identifier derived from the
\* header; when a carrier attribute yields a value the result comes from it.
C24_CarriersBeforeHeader ==
    Extracted =>
        LET ma == xrec.messageAttributes
            h == xrec.headers.traceparent
        IN /\ CarrierYields(xrec) =>
                 \/ xres.kind = "throw"
                 \/ /\ xres.kind = "ctx"
                    /\ xres.traceparent \in {ma.traceparent, ma.w3c_traceparent_orig}
                    /\ xres.traceparent =
                          IF Truthy(ma.traceparent) THEN ma.traceparent
                          ELSE ma.w3c_traceparent_orig
           /\ (~CarrierYields(xrec) /\ xrec.headers.present /\ h.t = "str" /\ h.v # <<>>) =>
                 /\ xres.kind = "ctx"
                 /\ xres.traceparent = h
                 /\ IsIdentifier(h) =>
                       /\ xres.traceId = Str(SubSeq(h.v, 4, 3 + TraceIdLen))
                       /\ xres.spanId =
                             Str(SubSeq(h.v, 5 + TraceIdLen, 4 + TraceIdLen + SpanIdLen))

C24_Witness ==
    /\ xrec.messageAttributes.present
    /\ xrec.messageAttributes.traceparent = Str(<<>>)
    /\ xrec.messageAttributes.w3c_traceparent_orig = Undef
    /\ xrec.headers.traceparent = Str(IdU)
    /\ xres.kind = "ctx"
    /\ xres.traceId = Str(TraceU)
    /\ xres.spanId = Str(SpanU)

(***************************************************************************)
(* Specification SpecIdentifier: the two serializers applied to the span   *)
(* of the active context, and the two generators.                          *)
(***************************************************************************)
\* largest traceFlags value of an input span
MaxFlags == 7

SpanAmbients ==
    { [span |-> sp, xray |-> xr] :
        sp \in {NoSpan} \cup { Span(TraceT, SpanT, fl) : fl \in 0..MaxFlags }
                        \cup { Span(TraceU, SpanU, fl) : fl \in 0..MaxFlags },
        xr \in {NoXray, BadXray}
               \cup { Xray(SubSeq(TraceU, 1, 8), SubSeq(TraceU, 9, TraceIdLen), SpanU, smp) :
                        smp \in {"0", "1"} } }

IdentifierInit ==
    /\ WIdle
    /\ xrec = [messageAttributes |-> NoAttrs, headers |-> NoHeaders]
    /\ xres = NotCalled
    /\ xres2 = NotCalled
    /\ IdIdle
    /\ PIdle
    /\ ambient \in SpanAmbients
    /\ hEvent = [traceparent |-> Undef]
    /\ hpc = "idle"
    /\ hLoc = NoLocals
    /\ hRet = NoReturn
    /\ pubIn = NoPublish
    /\ pubpc = "idle"
    /\ snsSent = <<>>
    /\ CIdle

\* obs.getTraceContext(), currentSpan being the span of the active context (init, line 22)
GetTraceContext ==
    /\ ~idres.lib.called
    /\ idres' = [idres EXCEPT !.lib = Obtained(getTraceContext(ambient.span))]
    /\ UNCHANGED <<xrec, xres, xres2, prec, pres, hvars, cvars, wvars>>

GetTraceparentFromActiveSpan ==
    /\ ~idres.pub.called
    /\ idres' = [idres EXCEPT !.pub = Obtained(getTraceparentFromActiveSpan(ambient))]
    /\ UNCHANGED <<xrec, xres, xres2, prec, pres, hvars, cvars, wvars>>

GenerateW3CTraceparent ==
    /\ ~idres.w3c.called
    /\ \E g \in generateW3CTraceparent :
          idres' = [idres EXCEPT !.w3c = Obtained(Str(g))]
    /\ UNCHANGED <<xrec, xres, xres2, prec, pres, hvars, cvars, wvars>>

GenerateFallbackTrace ==
    /\ ~idres.fallback.called
    /\ \E g \in generateFallbackTrace :
          idres' = [idres EXCEPT !.fallback = Obtained(Str(g))]
    /\ UNCHANGED <<xrec, xres, xres2, prec, pres, hvars, cvars, wvars>>

IdentifierNext ==
    \/ GetTraceContext
    \/ GetTraceparentFromActiveSpan
    \/ GenerateW3CTraceparent
    \/ GenerateFallbackTrace

SpecIdentifier == IdentifierInit /\ [][IdentifierNext]_vars

\* "00-<traceId>-<spanId>-<flags>", written out
Rendered(span, flags) ==
    <<"0", "0", "-">> \o span.traceId \o <<"-">> \o span.spanId \o <<"-">> \o flags

\* C15: for an active span, getTraceContext (library) and getTraceparentFromActiveSpan
\* (publisher) give exactly "00-<traceId>-<spanId>-<flags>" with the span's own traceId
\* and spanId, flags being "01" if and only if bit 0 of traceFlags is set and "00"
\* otherwise, whatever the other flag bits are.
C15_Serialization ==
    ambient.span.present =>
        LET flags == IF ambient.span.traceFlags % 2 = 1 THEN <<"0", "1">> ELSE <<"0", "0">>
            text == Str(Rendered(ambient.span, flags))
        IN /\ idres.lib.called =>
                /\ idres.lib.val.present
                /\ idres.lib.val.traceparent = text
                /\ idres.lib.val.traceId = ambient.span.traceId
                /\ idres.lib.val.spanId = ambient.span.spanId
           /\ idres.pub.called => idres.pub.val = text

C15_Witness ==
    /\ ambient.span.present
    /\ ambient.span.traceFlags = 2
    /\ ambient.xray.k = "match"
    /\ idres.lib.called
    /\ idres.pub.called
    /\ idres.pub.val = Str(Dashed(V00, TraceT, SpanT, F00))
    /\ idres.lib.val.traceparent = idres.pub.val

\* C16: every identifier generateW3CTraceparent and generateFallbackTrace produce has
\* version "00", a trace id of exactly 32 lowercase hex characters, a span id of
\* exactly 16 lowercase hex characters and flags "01"; generation always gives one.
C16_GeneratedWellFormed ==
    \A r \in {idres.w3c, idres.fallback} :
        r.called =>
            /\ r.val.t = "str"
            /\ WellFormed(r.val.v)
            /\ Split(r.val.v)[1] = <<"0", "0">>
            /\ Split(r.val.v)[4] = <<"0", "1">>

C16_Witness ==
    /\ idres.w3c.called
    /\ idres.fallback.called
    /\ idres.w3c.val = Str(Dashed(V00, Rep("c", TraceIdLen), Rep("0", SpanIdLen), F01))
    /\ idres.fallback.val = Str(Dashed(V00, Rep("3", TraceIdLen), Rep("c", SpanIdLen), F01))

(***************************************************************************)
(* Specification SpecParse: parseMessage applied to any record of          *)
(* ParseRecords.                                                           *)
(***************************************************************************)
PayloadNames == {"orderA", "orderB", "null"}
EnvelopeTypes == {"Notification", "SubscriptionConfirmation", ""}
MessageTexts == {NoText, EmptyText, BadText} \cup { JSONStringify(p) : p \in PayloadNames }

ParseBodies ==
    {NoBody, BadBody}
    \cup { BodyOf(Payload(p)) : p \in PayloadNames }
    \cup { BodyOf(Envelope(type, msg)) : type \in EnvelopeTypes, msg \in MessageTexts }

ParseRecords == { Rec(id, body, NoAttrs) : id \in 1..MaxBatch, body \in ParseBodies }

ParseInit ==
    /\ WIdle
    /\ xrec = [messageAttributes |-> NoAttrs, headers |-> NoHeaders]
    /\ xres = NotCalled
    /\ xres2 = NotCalled
    /\ IdIdle
    /\ prec \in ParseRecords
    /\ pres = NotParsed
    /\ HIdle
    /\ CIdle

ParseMessage ==
    /\ ~pres.called
    /\ pres' = [called |-> TRUE, ok |-> parseMessage(prec).ok, val |-> parseMessage(prec).val]
    /\ UNCHANGED <<xrec, xres, xres2, idres, prec, hvars, cvars, wvars>>

ParseNext == ParseMessage

SpecParse == ParseInit /\ [][ParseNext]_vars

\* C17: for every business payload P, parseMessage returns P both when the record
\* body is the JSON text of P and when the body is a JSON object with Type
\* "Notification" whose Message is the JSON text of P; and a body whose Type is not
\* "Notification" is returned as parsed, unchanged.
C17_UnwrapConverges ==
    pres.called =>
        /\ \A p \in PayloadNames :
              (\/ prec.body = BodyOf(Payload(p))
               \/ prec.body = BodyOf(Envelope("Notification", JSONStringify(p))))
              => (pres.ok /\ pres.val = Payload(p))
        /\ (prec.body.k = "json" /\ prec.body.v.Type # "Notification")
              => (pres.ok /\ pres.val = prec.body.v)

(***************************************************************************)
(* Specification SpecPublish: one call of SNSPublisher.publish.            *)
(***************************************************************************)
PublishInit ==
    /\ WIdle
    /\ XIdle
    /\ CIdle
    /\ ambient \in Ambients
    /\ hEvent = [traceparent |-> Undef]
    /\ hpc = "idle"
    /\ hLoc = NoLocals
    /\ hRet = NoReturn
    /\ pubIn \in PublishInputs
    /\ pubpc = "ready"
    /\ snsSent = <<>>

PublishNext == Publish \/ PublishSendOk \/ PublishSendFails

SpecPublish == PublishInit /\ [][PublishNext]_vars

(***************************************************************************)
(* Specification SpecBatch: one invocation of processBatch on any event of *)
(* BatchEvents with any Lambda context.                                    *)
(***************************************************************************)
BatchInit ==
    /\ WIdle
    /\ XIdle
    /\ HIdle
    /\ evt \in { [i \in Inv |-> IF i = 1 THEN e ELSE NoRecordsEvent] : e \in BatchEvents }
    /\ lctx \in { [i \in Inv |-> IF i = 1 THEN c ELSE "undefined"] : c \in ContextKinds }
    /\ pb = [i \in Inv |-> IF i = 1 THEN [IdlePB EXCEPT !.pc = "ready"] ELSE IdlePB]
    /\ calls = <<>>
    /\ spanStatus = "UNSET"

BatchNext == PBStart(1) \/ PBRecord(1) \/ PBResolve(1) \/ PBReject(1) \/ PBFinish(1)

SpecBatch == BatchInit /\ [][BatchNext]_vars

(***************************************************************************)
(* Specification SpecE2E: the publisher Lambda publishes, the relay        *)
(* delivers the message, and the consumer's processBatch handles it.       *)
(***************************************************************************)
E2EInit ==
    /\ WIdle
    /\ XIdle
    /\ ambient \in Ambients
    /\ hEvent \in HandlerEvents
    /\ hpc = "ready"
    /\ hLoc = NoLocals
    /\ hRet = NoReturn
    /\ pubIn = NoPublish
    /\ pubpc = "idle"
    /\ snsSent = <<>>
    /\ evt = [i \in Inv |-> NoRecordsEvent]
    /\ lctx \in { [i \in Inv |-> IF i = 1 THEN c ELSE "undefined"] :
                    c \in {"activeNoSpan", "activeSpan"} }
    /\ pb = [i \in Inv |-> IdlePB]
    /\ calls = <<>>
    /\ spanStatus = "UNSET"

E2ENext ==
    \/ PublisherHandler
    \/ SnsSendOk
    \/ SnsSendFails
    \/ Relay
    \/ PBStart(1)
    \/ PBRecord(1)
    \/ PBResolve(1)
    \/ PBReject(1)
    \/ PBFinish(1)

SpecE2E == E2EInit /\ [][E2ENext]_vars


(***************************************************************************)
(* Claims about the publisher and the end-to-end path (SpecPublish,        *)
(* SpecE2E).                                                               *)
(***************************************************************************)
TraceIdOf(s) == SubSeq(s, 4, 3 + TraceIdLen)

\* C2: when the publisher sent the identifier T in both carriers and the relay
\* replaced traceparent by an unrelated well-formed identifier, leaving
\* w3c_traceparent_orig untouched, the trace context processBatch hands to the
\* business callback has the trace id of T.
C2_TraceContinuity ==
    \A n \in 1..Len(calls) :
        LET sent == snsSent[1].MessageAttributes
            got == calls[n].record.messageAttributes
        IN (/\ IsIdentifier(sent["traceparent"])
            /\ sent["w3c_traceparent_orig"] = sent["traceparent"]
            /\ IsIdentifier(got.traceparent)
            /\ TraceIdOf(got.traceparent.v) # TraceIdOf(sent["traceparent"].v)
            /\ got.w3c_traceparent_orig = sent["w3c_traceparent_orig"])
           => /\ calls[n].traceContext.kind = "ctx"
              /\ calls[n].traceContext.traceId = Str(TraceIdOf(sent["traceparent"].v))

\* C3: in every command SNSPublisher.publish hands to the SNS client, the traceparent
\* attribute and the w3c_traceparent_orig attribute hold the same string, also when
\* the identifier is generated by generateFallbackTrace.
C3_PublishCarriersIdentical ==
    \A n \in 1..Len(snsSent) :
        snsSent[n].MessageAttributes["traceparent"]
            = snsSent[n].MessageAttributes["w3c_traceparent_orig"]

\* C4: in every command the publisher handler hands to the SNS client, traceparent and
\* w3c_traceparent_orig hold the identical string, and when the handler returns, that
\* string is the traceparent field of its return value.
C4_HandlerCarriersIdentical ==
    /\ \A n \in 1..Len(snsSent) :
          /\ snsSent[n].MessageAttributes["traceparent"].t = "str"
          /\ snsSent[n].MessageAttributes["traceparent"]
                = snsSent[n].MessageAttributes["w3c_traceparent_orig"]
    /\ hpc \in {"sending", "returned"} => Len(snsSent) = 1
    /\ hpc = "returned" =>
          /\ hRet.ok
          /\ hRet.traceparent = snsSent[1].MessageAttributes["traceparent"]
          /\ hRet.traceparent = snsSent[1].MessageAttributes["w3c_traceparent_orig"]

C4_Witness ==
    /\ hpc = "returned"
    /\ hRet.traceparentSource = "generated"
    /\ hRet.traceparent = snsSent[1].MessageAttributes["w3c_traceparent_orig"]
    /\ hRet.traceparent = Str(Dashed(V00, Rep("c", TraceIdLen), Rep("3", SpanIdLen), F01))

\* the identifier the handler handed to the SNS client
Attached == snsSent[1].MessageAttributes["traceparent"]

\* C13: the identifier the publisher handler attaches is event.traceparent when one
\* is supplied, otherwise the one of the active span, otherwise the one of the
\* runtime's X-Ray variable, otherwise a freshly generated one; and the
\* traceparentSource it returns is "incoming", "otel" or "generated" accordingly.
C13_FallbackOrder ==
    hpc \in {"sending", "returned"} =>
        LET incoming == hEvent.traceparent
            source == hRet.traceparentSource
        IN IF Truthy(incoming)
           THEN /\ Attached = incoming
                /\ hpc = "returned" => source = "incoming"
           ELSE IF ambient.span.present
           THEN /\ Attached = SpanTraceparent(ambient.span)
                /\ hpc = "returned" => source = "otel"
           ELSE IF ambient.xray.k = "match"
           THEN /\ Attached = XrayTraceparent(ambient.xray)
                /\ hpc = "returned" => source = "otel"
           ELSE /\ Attached.t = "str"
                /\ Attached.v \in generateW3CTraceparent
                /\ hpc = "returned" => source = "generated"

C13_Witness ==
    /\ hpc = "returned"
    /\ hEvent.traceparent = Str(<<>>)
    /\ ~ambient.span.present
    /\ ambient.xray.k = "match"
    /\ hRet.traceparentSource = "otel"
    /\ Attached = Str(Dashed(V00, TraceU, SpanU, F01))

\* C14: for every input event, also one whose traceparent is no well-formed
\* identifier or no string, the publisher handler does not throw (it rejects only
\* when the SNS client does), and the traceparent it publishes is a well-formed
\* identifier.
C14_HandlerAlwaysUsable ==
    /\ hpc \in {"sending", "returned"} => IsIdentifier(Attached)
    /\ hpc = "rejected" => Len(snsSent) = 1

\* C22: the attribute map SNSPublisher.publish hands to the SNS client always holds
\* both trace carriers together with the caller's business attributes, for every value
\* of options, also when messageAttributes or publishOptions name the same keys.
C22_PublishAttributeMap ==
    \A n \in 1..Len(snsSent) :
        LET sent == snsSent[n].MessageAttributes IN
        /\ Truthy(sent["traceparent"])
        /\ Truthy(sent["w3c_traceparent_orig"])
        /\ sent["orderId"] = pubIn.options.messageAttributes["orderId"]

\* C23: when the host runtime has an active span at the time SNSPublisher.publish is
\* called, the identifier attached to the outgoing message has that span's trace id;
\* an identifier is generated only when there is no active span.
C23_PublishUsesActiveSpan ==
    \A n \in 1..Len(snsSent) :
        (ambient.span.present /\ ~pubIn.options.publishOptions.hasMessageAttributes) =>
            LET sent == snsSent[n].MessageAttributes IN
            /\ IsIdentifier(sent["traceparent"])
            /\ TraceIdOf(sent["traceparent"].v) = ambient.span.traceId
            /\ TraceIdOf(sent["w3c_traceparent_orig"].v) = ambient.span.traceId

(***************************************************************************)
(* Claims about processBatch (SpecBatch).                                  *)
(***************************************************************************)
Batch == RecordsOf(evt[1])
Returned == pb[1].pc = "returned"
CallsOf(id) == { n \in 1..Len(calls) : calls[n].inv = 1 /\ calls[n].messageId = id }
Processable(record) ==
    /\ record.isObject
    /\ parseMessage(record).ok
    /\ extractIncomingTraceContext(record).kind # "throw"
StatusOf(j) == pb[1].results[j].status

\* the business callback failed on record k and on no other record
FailsOnlyOn(k) ==
    /\ \E n \in CallsOf(k) : calls[n].outcome = "rejected"
    /\ \A n \in 1..Len(calls) : calls[n].outcome = "rejected" => calls[n].messageId = k

\* C5: for a batch of N records that can all be unwrapped, where the business
\* callback fails only on record k: batchItemFailures holds exactly record k's
\* messageId, every other record (those after k included) was handed to the
\* callback, and the other N-1 records are recorded as success.
C5_FailureIsolation ==
    \A k \in 1..Len(Batch) :
        (/\ Returned
         /\ \A j \in 1..Len(Batch) : Processable(Batch[j])
         /\ FailsOnlyOn(Batch[k].messageId))
        => /\ pb[1].ret = <<[itemIdentifier |-> Batch[k].messageId]>>
           /\ Len(pb[1].results) = Len(Batch)
           /\ \A j \in 1..Len(Batch) :
                /\ pb[1].results[j].messageId = Batch[j].messageId
                /\ StatusOf(j) = IF j = k THEN "error" ELSE "success"
                /\ \E n \in CallsOf(Batch[j].messageId) :
                      calls[n].outcome = IF j = k THEN "rejected" ELSE "resolved"

C5_Witness ==
    /\ Returned
    /\ Len(Batch) = MaxBatch
    /\ \A j \in 1..Len(Batch) : Processable(Batch[j])
    /\ FailsOnlyOn(Batch[1].messageId)
    /\ pb[1].ret = <<[itemIdentifier |-> Batch[1].messageId]>>
    /\ StatusOf(MaxBatch) = "success"

\* the messageIds of the entries with status error, in order
RECURSIVE ErrorIds(_)
ErrorIds(results) ==
    IF results = <<>> THEN <<>>
    ELSE IF Head(results).status = "error"
    THEN <<[itemIdentifier |-> Head(results).messageId]>> \o ErrorIds(Tail(results))
    ELSE ErrorIds(Tail(results))

\* C6: when processBatch returns, the per-record results hold exactly one entry
\* per record of the batch, in delivery order, each with status success or error, and
\* batchItemFailures lists exactly the messageIds of the entries with status error,
\* once each, in delivery order.
C6_BatchOutcome ==
    Returned =>
        /\ Len(pb[1].results) = Len(Batch)
        /\ \A j \in 1..Len(Batch) :
             /\ pb[1].results[j].messageId = Batch[j].messageId
             /\ StatusOf(j) \in {"success", "error"}
        /\ pb[1].ret = ErrorIds(pb[1].results)
        /\ \A a, b \in 1..Len(pb[1].ret) :
             pb[1].ret[a].itemIdentifier = pb[1].ret[b].itemIdentifier => a = b

C6_Witness ==
    /\ Returned
    /\ Len(Batch) = MaxBatch
    /\ StatusOf(1) = "error"
    /\ StatusOf(2) = "success"
    /\ StatusOf(MaxBatch) = "error"
    /\ Len(pb[1].ret) = 2
    /\ pb[1].ret[2].itemIdentifier = Batch[MaxBatch].messageId

\* C7: processBatch never rejects, for any event and any Lambda context; stated here
\* for the events that are objects whose records are objects and for the Lambda
\* contexts that are objects.
C7_NoFaultEscapes ==
    (/\ evt[1].t = "obj"
     /\ lctx[1] # "undefined"
     /\ \A j \in 1..Len(Batch) : Batch[j].isObject)
    => pb[1].pc # "rejected"

\* C8: when processBatch returns, every record whose body (or inner Notification
\* Message) cannot be parsed is in batchItemFailures and was never handed to the
\* business callback, and every record that parses was handed to it exactly once.
C8_MalformedPayload ==
    Returned =>
        \A j \in 1..Len(Batch) :
            IF parseMessage(Batch[j]).ok
            THEN Cardinality(CallsOf(Batch[j].messageId)) = 1
            ELSE /\ CallsOf(Batch[j].messageId) = {}
                 /\ \E m \in 1..Len(pb[1].ret) :
                       pb[1].ret[m].itemIdentifier = Batch[j].messageId

\* C12: whatever the trace carriers of a record contain (nothing, malformed text or
\* a value that is no string), when processBatch returns, every record whose body
\* parses was handed to the business callback, and is recorded as success when the
\* callback succeeded.
C12_TraceNeverBlocks ==
    Returned =>
        \A j \in 1..Len(Batch) :
            parseMessage(Batch[j]).ok =>
                /\ CallsOf(Batch[j].messageId) # {}
                /\ \A n \in CallsOf(Batch[j].messageId) :
                      calls[n].outcome = "resolved" => StatusOf(j) = "success"

\* the business callback completed without error on record j
Succeeded(j) == \E n \in CallsOf(Batch[j].messageId) : calls[n].outcome = "resolved"

\* C18: when processBatch returns, batchItemFailures is empty if and only if every
\* record of the batch was unwrapped and its business callback completed without error.
C18_EmptyIffAllSucceeded ==
    Returned =>
        (pb[1].ret = <<>>
            <=> \A j \in 1..Len(Batch) : parseMessage(Batch[j]).ok /\ Succeeded(j))

C18_Witness ==
    /\ Returned
    /\ Len(Batch) = MaxBatch
    /\ pb[1].ret = <<>>
    /\ \A j \in 1..Len(Batch) : Succeeded(j)
    /\ \E j \in 1..Len(Batch) : Batch[j].body.v.Type = "Notification"

\* C19: the records of a batch are processed one after the other in delivery order:
\* when the business callback of a record is started, the callback of every earlier
\* record has settled and the outcome of every earlier record is recorded.
C19_Sequential ==
    \A n \in 1..Len(calls) :
        /\ calls[n].outcome = "pending" => (n = Len(calls) /\ pb[1].pc = "awaiting")
        /\ Len(pb[1].results) >= calls[n].messageId - 1
        /\ \A m \in 1..(n - 1) :
              /\ calls[m].messageId < calls[n].messageId
              /\ calls[m].outcome \in {"resolved", "rejected"}
              /\ StatusOf(calls[m].messageId) =
                    IF calls[m].outcome = "resolved" THEN "success" ELSE "error"

C19_Witness ==
    /\ Len(calls) = MaxBatch
    /\ calls[1].outcome = "rejected"
    /\ calls[2].outcome = "resolved"
    /\ calls[MaxBatch].outcome = "pending"
    /\ Len(pb[1].results) = MaxBatch - 1

\* C21: every invocation of the business callback gets the unwrapped payload of one
\* record of the batch, the trace context extracted from that same record and that
\* same record object; never the payload or the context of another record.
C21_OwnArguments ==
    \A n \in 1..Len(calls) :
        \E j \in 1..Len(Batch) :
            /\ calls[n].messageId = Batch[j].messageId
            /\ calls[n].record = Batch[j]
            /\ calls[n].messageData = parseMessage(Batch[j]).val
            /\ calls[n].traceContext = extractIncomingTraceContext(Batch[j])

C21_Witness ==
    /\ Len(calls) = 2
    /\ calls[1].traceContext.traceId = Str(TraceT)
    /\ calls[1].messageData = Payload("orderA")
    /\ calls[2].traceContext.traceId = Str(TraceU)
    /\ calls[2].messageData = Payload("orderB")
    /\ calls[2].record = Batch[2]

\* some record of the batch processed so far failed
SomeError == \E j \in 1..Len(pb[1].results) : StatusOf(j) = "error"

\* C29: in processBatch, with a span, handleError sets the span status to ERROR for each
\* failed record, and complete() runs after the last record and sets it to OK: the
\* span status when processBatch returns is OK, also when some or all records failed.
C29_StatusFinalised ==
    pb[1].hasSpan =>
        /\ (pb[1].pc \in {"loop", "awaiting"} /\ SomeError) => spanStatus = "ERROR"
        /\ Returned => spanStatus = "OK"

C29_Witness ==
    /\ Returned
    /\ pb[1].hasSpan
    /\ Len(Batch) = MaxBatch
    /\ \A j \in 1..Len(Batch) : StatusOf(j) = "error"
    /\ spanStatus = "OK"

(***************************************************************************)
(* Specification SpecConcurrent: two invocations of processBatch on one    *)
(* SQSProcessor, each with its own batch, their steps interleaved at the   *)
(* await of the business callback.                                         *)
(***************************************************************************)
ConcurrentShapes ==
    { [isObject |-> TRUE, body |-> BodyOf(Payload("orderA")),
       messageAttributes |-> Attrs(Str(IdT), Str(IdT))],
      [isObject |-> TRUE, body |-> BadBody, messageAttributes |-> NoAttrs] }

\* the batches of invocation i: its messageIds are its own
ConcurrentBatches(i) ==
    { [j \in 1..n |-> ShapedRecord(f[j], (i - 1) * MaxBatch + j)] :
        n \in 1..(MaxBatch - 1), f \in [1..(MaxBatch - 1) -> ConcurrentShapes] }

ConcurrentInit ==
    /\ WIdle
    /\ XIdle
    /\ HIdle
    /\ evt \in { [i \in Inv |-> RecordsEvent(IF i = 1 THEN b1 ELSE b2)] :
                   b1 \in ConcurrentBatches(1), b2 \in ConcurrentBatches(2) }
    /\ lctx \in { [i \in Inv |-> c] : c \in {"activeNoSpan", "activeSpan"} }
    /\ pb = [i \in Inv |-> [IdlePB EXCEPT !.pc = "ready"]]
    /\ calls = <<>>
    /\ spanStatus = "UNSET"

ConcurrentNext ==
    \E i \in Inv : PBStart(i) \/ PBRecord(i) \/ PBResolve(i) \/ PBReject(i) \/ PBFinish(i)

SpecConcurrent == ConcurrentInit /\ [][ConcurrentNext]_vars

BatchOf(i) == RecordsOf(evt[i])

\* record j of the batch of invocation i failed: it could not be unwrapped, or the
\* callback invocation i made for it failed
FailedIn(i, j) ==
    \/ ~Processable(BatchOf(i)[j])
    \/ \E n \in 1..Len(calls) :
          /\ calls[n].inv = i
          /\ calls[n].messageId = BatchOf(i)[j].messageId
          /\ calls[n].outcome = "rejected"

\* C30: two processBatch invocations on the same SQSProcessor, interleaved at the
\* awaits, do not interfere: each keeps its own results and failures, and the
\* batchItemFailures each returns hold exactly the messageIds of its own batch's
\* failed records.
C30_NoInterference ==
    \A i \in Inv :
        pb[i].pc = "returned" =>
            /\ Len(pb[i].results) = Len(BatchOf(i))
            /\ \A m \in 1..Len(pb[i].ret) :
                  \E j \in 1..Len(BatchOf(i)) :
                      /\ pb[i].ret[m].itemIdentifier = BatchOf(i)[j].messageId
                      /\ FailedIn(i, j)
            /\ \A j \in 1..Len(BatchOf(i)) :
                  FailedIn(i, j) =>
                      \E m \in 1..Len(pb[i].ret) :
                          pb[i].ret[m].itemIdentifier = BatchOf(i)[j].messageId
            /\ Len(pb[i].ret) <= Len(BatchOf(i))

C30_Witness ==
    /\ \A i \in Inv : pb[i].pc = "returned" /\ pb[i].ret # <<>>
    /\ Len(calls) >= 3
    /\ calls[1].inv = 1
    /\ calls[2].inv = 2
    /\ calls[3].inv = 1
    /\ calls[2].outcome = "rejected"
    /\ calls[3].outcome = "rejected"

(***************************************************************************)
(* Specification SpecAPI: one invocation of APIHandler.handle.             *)
(***************************************************************************)
APIEvents ==
    {UndefAPIEvent}
    \cup { APIEvent(h) : h \in {NoHeaders, Headers(Undef), Headers(Str(IdT)),
                                Headers(Str(Garbage)), Headers(Num)} }

APIInit ==
    /\ XIdle
    /\ HIdle
    /\ CIdle
    /\ api \in { [IdleAPI EXCEPT !.pc = "ready", !.event = e, !.context = c,
                                 !.awsRequestId = r] :
                   e \in APIEvents, c \in ContextKinds, r \in {Undef, Str(RequestId)} }
    /\ wo = IdleWrapper
    /\ mon = IdleMonitor
    /\ twice = NotApplied

APINext == APIStart \/ APILogicResolves \/ APILogicRejects

SpecAPI == APIInit /\ [][APINext]_vars

\* C25: once init has succeeded, APIHandler.handle never rejects: when the business
\* logic throws or rejects, or returns a value that cannot be read as a response,
\* handle resolves with a response of statusCode 500 whose body carries the request
\* id of the context; otherwise it returns the business logic's result unchanged.
C25_HandleNeverRejects ==
    /\ ~InitThrows(api.event, api.context) => api.pc # "threw"
    /\ api.pc = "returned" =>
          IF api.called /\ api.op.k = "value" /\ api.op.v.kind \in {"response", "plain"}
          THEN api.out = api.op
          ELSE /\ api.out.k = "value"
               /\ api.out.v.statusCode = 500
               /\ api.out.v.body.requestId = api.awsRequestId

C25_Witness ==
    /\ api.pc = "returned"
    /\ api.called
    /\ api.op = Settled("throw", UndefinedValue)
    /\ api.out.v.statusCode = 500
    /\ api.out.v.body.requestId = Str(RequestId)

(***************************************************************************)
(* Specification SpecWrapper: one invocation of a withObservability        *)
(* wrapper and one direct call of monitor.                                 *)
(***************************************************************************)
WrapperInit ==
    /\ XIdle
    /\ HIdle
    /\ CIdle
    /\ api = IdleAPI
    /\ wo \in { [IdleWrapper EXCEPT !.pc = "ready", !.event = e, !.context = c] :
                  e \in {UndefEvent, NoRecordsEvent, RecordsEvent(<<>>)},
                  c \in ContextKinds }
    /\ mon \in { [IdleMonitor EXCEPT !.pc = "ready", !.name = n, !.hasSpan = b] :
                   n \in {"business_logic", "sns_publish"}, b \in BOOLEAN }
    /\ twice = NotApplied

WrapperNext ==
    \/ WrapperStart
    \/ WrapperHandlerResolves
    \/ WrapperHandlerRejects
    \/ MonitorStart
    \/ MonitorOperationResolves
    \/ MonitorOperationRejects

SpecWrapper == WrapperInit /\ [][WrapperNext]_vars

\* the number of times the message was logged
Logged(logs, msg) == Cardinality({ n \in 1..Len(logs) : logs[n] = msg })

\* C26: when the wrapped handler throws or rejects, the withObservability wrapper
\* rejects with that same error after handleError recorded it, and complete() (the
\* function_completed log and the OK status) is not executed; when the handler
\* succeeds the wrapper returns its result and complete() runs exactly once.
C26_WrapperPropagates ==
    /\ wo.op.k = "throw" =>
          /\ wo.pc = "threw"
          /\ wo.out = wo.op
          /\ wo.handled = wo.op.v
          /\ Logged(wo.logs, Msg("operation", "failed")) = 1
          /\ Logged(wo.logs, Msg("function", "completed")) = 0
          /\ wo.status # "OK"
    /\ wo.op.k = "value" =>
          /\ wo.pc = "returned"
          /\ wo.out = wo.op
          /\ Logged(wo.logs, Msg("function", "completed")) = 1
          /\ wo.hasSpan => wo.status = "OK"

\* C27: monitor is transparent to the outcome of its operation: it returns exactly the
\* operation's result, or rethrows exactly the operation's error, and after the
\* <name>_started log it emits exactly one of <name>_completed and <name>_failed.
C27_MonitorTransparent ==
    /\ mon.pc = "awaiting" => mon.logs = <<Msg(mon.name, "started")>>
    /\ mon.pc \in {"returned", "threw"} =>
          /\ mon.out = mon.op
          /\ mon.pc = IF mon.op.k = "value" THEN "returned" ELSE "threw"
          /\ mon.logs = <<Msg(mon.name, "started"),
                          Msg(mon.name, IF mon.op.k = "value" THEN "completed" ELSE "failed")>>

(***************************************************************************)
(* Specification SpecTwice: extractIncomingTraceContext and parseMessage   *)
(* applied up to MaxApply times each to one record.                        *)
(***************************************************************************)
TwiceRecords ==
    { [Rec(1, body, ma) EXCEPT !.headers = h] :
        body \in {NoBody, BadBody, BodyOf(JNull), BodyOf(Payload("orderA")),
                  BodyOf(Envelope("Notification", JsonText("orderB"))),
                  BodyOf(Envelope("Notification", BadText))},
        ma \in {NoAttrs, Attrs(Str(IdT), Str(IdU)), Attrs(Undef, Str(IdU)),
                Attrs(Str(Garbage), Undef), Attrs(Num, Undef)},
        h \in {NoHeaders, Headers(Str(IdT))} }

TwiceInit ==
    /\ xrec = [messageAttributes |-> NoAttrs, headers |-> NoHeaders]
    /\ xres = NotCalled
    /\ xres2 = NotCalled
    /\ IdIdle
    /\ prec \in TwiceRecords
    /\ pres = NotParsed
    /\ HIdle
    /\ CIdle
    /\ api = IdleAPI
    /\ wo = IdleWrapper
    /\ mon = IdleMonitor
    /\ twice = NotApplied

TwiceNext == ExtractApply \/ ParseApply

SpecTwice == TwiceInit /\ [][TwiceNext]_vars

====
